---- MODULE Spec2Model ----
(***************************************************************************)
(* Agentic Social Responders.                                              *)
(*                                                                         *)
(* Two state machines:                                                     *)
(*   - the respond relay, POST /api/respond (app/api/respond/route.ts),    *)
(*     one invocation per behaviour, with the outbound Graph API call of   *)
(*     lib/meta.ts (postMetaResponse);                                     *)
(*   - the dashboard page (app/page.tsx): the automation rule store and    *)
(*     its two local-storage effects.                                      *)
(***************************************************************************)
EXTENDS Integers, Sequences, FiniteSets, TLC

\* ------------------------------------------------------------------------
\* JavaScript values
\* ------------------------------------------------------------------------

\* A property that is not present in an object (reads as undefined).
Undefined == "<undefined>"
\* The JSON booleans, kept apart from the strings "true" and "false".
JsTrue == "<true>"
JsFalse == "<false>"

\* ToBoolean on the values used here: undefined, "" and false are falsy.
Truthy(v) == v \notin {Undefined, "", JsFalse}

\* ------------------------------------------------------------------------
\* Respond relay: inputs
\* ------------------------------------------------------------------------

PlatformValues == {Undefined, "", "facebook", "instagram", "tiktok"}
TargetIdValues == {Undefined, "", "123"}
MessageValues == {Undefined, "", "hi"}
ChannelValues == {Undefined, "", "comment", "message", "story"}
DryRunValues == {Undefined, JsTrue, JsFalse}
TokenValues == {Undefined, "req-token"}
BusinessIdValues == {Undefined, "", "ig-biz-1"}
ReplyToValues == {Undefined, "comment-9"}
EnvTokenValues == {Undefined, "env-token"}

\* What request.json() yields: a syntax error, the JSON value null, or an
\* object whose properties may be missing.
BodyKinds == {"unparsable", "null", "object"}

EmptyBody ==
  [platform |-> Undefined, targetId |-> Undefined, message |-> Undefined,
   channel |-> Undefined, dryRun |-> Undefined, accessToken |-> Undefined,
   instagramBusinessAccountId |-> Undefined, replyToId |-> Undefined]

Bodies ==
  [platform : PlatformValues, targetId : TargetIdValues,
   message : MessageValues, channel : ChannelValues,
   dryRun : DryRunValues, accessToken : TokenValues,
   instagramBusinessAccountId : BusinessIdValues, replyToId : ReplyToValues]

\* What the Graph API can answer to the one outbound call, or a network
\* failure of fetch itself.
RemoteOutcomes ==
  { [kind |-> "response", status |-> 200, json |-> "remote-ok-body", message |-> ""],
    [kind |-> "response", status |-> 201, json |-> "remote-created-body", message |-> ""],
    [kind |-> "response", status |-> 400, json |-> "remote-error-body",
     message |-> "Invalid OAuth access token"],
    [kind |-> "network", status |-> 0, json |-> "", message |-> "fetch failed"] }

\* response.ok of the fetch API
RemoteOk(o) == o.kind = "response" /\ o.status >= 200 /\ o.status <= 299

VARIABLES
  bodyKind,        \* relay: outcome of request.json()
  body,            \* relay: the parsed request record
  envToken,        \* relay: process.env.META_ACCESS_TOKEN
  pc,              \* relay: position of the POST handler
  calls,           \* relay: outbound calls started, in order
  callsSettled,    \* relay: number of outbound calls that have completed
  remote,          \* relay: what the remote answered (last settled call)
  helper,          \* relay: how postMetaResponse settled
  thrown,          \* relay: the exception caught by POST, if any
  response         \* relay: the HTTP response of POST, once produced

relayVars ==
  <<bodyKind, body, envToken, pc, calls, callsSettled, remote, helper,
    thrown, response>>

VARIABLES
  strictMode,          \* page: development build, mount effects run twice
  automations,         \* page: the rendered automations state
  pendingAutomations,  \* page: setAutomations queued by an effect, not yet rendered
  newAutomation,       \* page: the automation form
  automationStatus,    \* page: the status select of the form
  automationFeedback,  \* page: the feedback line under the form
  storage,             \* window.localStorage item "agentic-automations-v1"
  mount,               \* page: which mount effect runs next, or "idle"
  clock,               \* Date.now()
  track,               \* history: the list held in memory by the last add
  mountLog             \* history: what the current mount started from

pageVars ==
  <<strictMode, automations, pendingAutomations, newAutomation,
    automationStatus, automationFeedback, storage, mount, clock, track,
    mountLog>>

VARIABLES
  messages,           \* inbox: the messages state
  selectedMessageId,  \* inbox: the selected message
  credentials,        \* inbox: the connection cards
  composerValue,      \* inbox: the reply textarea
  isSending,          \* inbox: a dispatch is under way
  composerFeedback,   \* inbox: the line under the composer
  activityLog,        \* inbox: the activity stream, newest first
  inflight,           \* inbox: the handleSendReply call that awaits its answer
  platformFilter,     \* inbox: the platform filter
  statusFilter,       \* inbox: the status filter
  searchTerm,         \* inbox: the search box
  dispatches          \* inbox: send presses, requests made, requests ended

inboxVars ==
  <<messages, selectedMessageId, credentials, composerValue, isSending,
    composerFeedback, activityLog, inflight, platformFilter, statusFilter,
    searchTerm, dispatches>>

VARIABLES
  tabs,               \* two tabs on one local storage: each tab's page state
  tabOps              \* two tabs: the rule-list changes made so far

tabVars == <<tabs, tabOps>>

vars == <<relayVars, pageVars, inboxVars, tabVars>>

NoThrow == [raised |-> FALSE, isError |-> FALSE, message |-> ""]
Raise(msg) == [raised |-> TRUE, isError |-> TRUE, message |-> msg]

NoHelper == [state |-> "none", result |-> [dryRun |-> FALSE, payload |-> ""]]
NoRemote == [kind |-> "none", status |-> 0, json |-> "", message |-> ""]
NoResponse ==
  [sent |-> FALSE, status |-> 0, ok |-> FALSE, error |-> "",
   result |-> [dryRun |-> FALSE, payload |-> ""]]

RequiredError ==
  "platform, targetId, message, and channel are required properties."
ChannelError == "channel must be comment or message"
FallbackError == "Unexpected error while sending response"

\* NextResponse.json(payload, { status })
JsonResponse(st, isOk, err, res) ==
  [sent |-> TRUE, status |-> st, ok |-> isOk, error |-> err, result |-> res]

\* Variant of the catch block that reports a caught error as a client error.
CatchResponseAsClientError(e) ==
  JsonResponse(400, FALSE,
               IF e.isError THEN e.message ELSE FallbackError,
               NoResponse.result)

\* Variant of the catch block that always reports the fallback text.
CatchResponseFallbackOnly(e) ==
  JsonResponse(500, FALSE, FallbackError, NoResponse.result)

\* The catch block of POST.
CatchResponse(e) ==
  JsonResponse(500, FALSE,
               IF e.isError THEN e.message ELSE FallbackError,
               NoResponse.result)

\* Variant of the required-properties test that forgets the message.
MissingRequiredNoMessage(b) ==
  \/ ~Truthy(b.platform)
  \/ ~Truthy(b.targetId)
  \/ ~Truthy(b.channel)

\* Variant of the required-properties test that only looks for undefined.
MissingRequiredUndefinedOnly(b) ==
  \/ b.platform = Undefined
  \/ b.targetId = Undefined
  \/ b.message = Undefined
  \/ b.channel = Undefined

\* Variant of the required-properties test that lets an empty message in.
MissingRequiredEmptyMessageAllowed(b) ==
  \/ ~Truthy(b.platform)
  \/ ~Truthy(b.targetId)
  \/ b.message = Undefined
  \/ ~Truthy(b.channel)

\* Variant of the required-properties test that gives way to the channel
\* test when the channel is not a valid one.
MissingRequiredUnlessBadChannel(b) ==
  /\ b.channel \in {"comment", "message"}
  /\ \/ ~Truthy(b.platform)
     \/ ~Truthy(b.targetId)
     \/ ~Truthy(b.message)

\* The required-properties test of POST.
MissingRequired(b) ==
  \/ ~Truthy(b.platform)
  \/ ~Truthy(b.targetId)
  \/ ~Truthy(b.message)
  \/ ~Truthy(b.channel)

\* Variant of the channel test that lets a third channel through.
InvalidChannelAllowsStory(b) ==
  b.channel # "comment" /\ b.channel # "message" /\ b.channel # "story"

\* The channel test of POST.
InvalidChannel(b) == b.channel # "comment" /\ b.channel # "message"

\* Variant of the argument record that does not forward dryRun.
HelperArgsWithoutDryRun(b) ==
  [platform |-> b.platform, targetId |-> b.targetId, message |-> b.message,
   channel |-> b.channel, dryRun |-> Undefined, accessToken |-> b.accessToken,
   instagramBusinessAccountId |-> b.instagramBusinessAccountId,
   replyToId |-> b.replyToId]

\* Variant of the argument record that forwards the target id as the token.
HelperArgsTokenMixup(b) ==
  [platform |-> b.platform, targetId |-> b.targetId, message |-> b.message,
   channel |-> b.channel, dryRun |-> b.dryRun, accessToken |-> b.targetId,
   instagramBusinessAccountId |-> b.instagramBusinessAccountId,
   replyToId |-> b.replyToId]

\* The argument record POST hands to postMetaResponse.
HelperArgs(b) ==
  [platform |-> b.platform, targetId |-> b.targetId, message |-> b.message,
   channel |-> b.channel, dryRun |-> b.dryRun, accessToken |-> b.accessToken,
   instagramBusinessAccountId |-> b.instagramBusinessAccountId,
   replyToId |-> b.replyToId]

\* Variant of the success response that leaves the result out.
OkResponseWithoutResult(res) == JsonResponse(200, TRUE, "", NoResponse.result)

\* return NextResponse.json({ ok: true, result })
OkResponse(res) == JsonResponse(200, TRUE, "", res)

\* ------------------------------------------------------------------------
\* Dashboard page: automation rules and their local-storage item
\* ------------------------------------------------------------------------

\* Longest rule list the add button is pressed on, and the last clock value.
MaxRules == 3
MaxClock == 2

Null == "<null>"

initialAutomations ==
  << [id |-> "auto-lead", name |-> "Lead capture (comments)",
      platform |-> "all", channel |-> "comment",
      trigger |-> "contains 'pricing' OR 'cost'",
      response |-> "Thanks for your interest!", status |-> "active"],
     [id |-> "auto-support", name |-> "Support escalation (DM)",
      platform |-> "facebook", channel |-> "message",
      trigger |-> "contains 'help' OR 'issue'",
      response |-> "I'm looping in our support team now.", status |-> "active"] >>

\* The form as useState creates it and as addAutomation resets it.
BlankAutomationForm ==
  [name |-> "", platform |-> "all", channel |-> "comment",
   trigger |-> "", response |-> ""]

\* What the user can type or select in the form.
FormNames == {"", "VIP"}
FormTriggers == {"", "contains 'vip'"}
FormResponses == {"", "Hi {{name}}"}
FormPlatforms == {"all"}
FormChannels == {"comment"}
AutomationStatuses == {"active", "paused"}

ValidationFeedback ==
  "Please provide a name, trigger, and response for the automation."
CreatedFeedback(name) == "Automation \"" \o name \o "\" created."

\* `automation-${Date.now()}`
AutomationId(now) == "automation-" \o ToString(now)

\* JSON.stringify of a rule list: per rule the key/value pairs in key order;
\* a property whose value is undefined is left out.
RuleKeys ==
  <<"id", "name", "platform", "channel", "trigger", "response", "status">>

StringifyRule(r) ==
  SelectSeq([i \in 1..Len(RuleKeys) |-> <<RuleKeys[i], r[RuleKeys[i]]>>],
            LAMBDA kv : kv[2] # Undefined)

Stringify(rules) == [i \in 1..Len(rules) |-> StringifyRule(rules[i])]

\* JSON.parse of such a text: a key that is not in the text reads undefined.
ParseRule(text) ==
  [k \in {RuleKeys[i] : i \in 1..Len(RuleKeys)} |->
     IF \E i \in 1..Len(text) : text[i][1] = k
       THEN text[CHOOSE i \in 1..Len(text) : text[i][1] = k][2]
       ELSE Undefined]

Parse(text) == [i \in 1..Len(text) |-> ParseRule(text[i])]

\* The local-storage item: not set, set to text that is not JSON, set to
\* JSON text that is not an array (such as {}), or set to the JSON text of a
\* rule list.
NoItem == [kind |-> "none", text |-> <<>>]
CorruptItem == [kind |-> "corrupt", text |-> <<>>]
ObjectItem == [kind |-> "object", text |-> <<>>]
JsonItem(rules) == [kind |-> "json", text |-> Stringify(rules)]

NoPending == [set |-> FALSE, isList |-> TRUE, value |-> <<>>]
NoTrack == [phase |-> "none", list |-> <<>>]
NoMountLog == [read |-> "unread", reloaded |-> FALSE, before |-> <<>>]

\* ------------------------------------------------------------------------
\* Dashboard page: inbox, composer and activity stream
\* ------------------------------------------------------------------------

\* Most dispatches started in one page lifetime.
MaxDispatches == 2

\* The seed of the inbox (data/sampleMessages.ts).
sampleMessages ==
  << [id |-> "fb-comment-1", platform |-> "facebook", type |-> "comment",
      author |-> "Alex Rivera", snippet |-> "What is the pricing?",
      status |-> "unread"],
     [id |-> "ig-dm-1", platform |-> "instagram", type |-> "message",
      author |-> "Sam Lee", snippet |-> "I need help with my order",
      status |-> "snoozed"] >>

defaultCredentials ==
  [facebookToken |-> "", instagramBusinessId |-> "", instagramToken |-> ""]

\* What the user can enter in the connection cards and in the composer.
CredentialValues ==
  [facebookToken |-> {"", "fb-token"}, instagramBusinessId |-> {"", "ig-biz-1"},
   instagramToken |-> {"", "ig-token"}]
ComposerValues == {"", "Thanks for reaching out!"}

\* What the user can pick in the filter bar and type in the search box.
PlatformFilters == {"all", "facebook", "instagram"}
StatusFilters == {"all", "unread", "responded", "snoozed"}
SearchTerms == {"", "ALEX"}

NoDispatches == [pressed |-> 0, requested |-> 0, ended |-> 0]

NoDispatch ==
  [active |-> FALSE, message |-> sampleMessages[1], payload |-> EmptyBody]

\* The inbox as useState creates it.
InboxAtRest ==
  /\ messages = sampleMessages
  /\ selectedMessageId = sampleMessages[1].id
  /\ credentials = defaultCredentials
  /\ composerValue = ""
  /\ isSending = FALSE
  /\ composerFeedback = Null
  /\ activityLog = <<>>
  /\ inflight = NoDispatch
  /\ platformFilter = "all"
  /\ statusFilter = "all"
  /\ searchTerm = ""
  /\ dispatches = NoDispatches

\* Two tabs of the page on one local storage.
Tabs == {1, 2}

FreshTab == [automations |-> initialAutomations, pending |-> NoPending,
             mount |-> "closed"]

\* Most changes of a rule list the two tabs make between them.
MaxTabOps == 3

TabsAtRest ==
  /\ tabs = [t \in Tabs |-> FreshTab]
  /\ tabOps = 0

\* The page while only the relay is looked at.
PageAtRest ==
  /\ strictMode = FALSE
  /\ automations = initialAutomations
  /\ pendingAutomations = NoPending
  /\ newAutomation = BlankAutomationForm
  /\ automationStatus = "active"
  /\ automationFeedback = Null
  /\ storage = NoItem
  /\ mount = "idle"
  /\ clock = 1
  /\ track = NoTrack
  /\ mountLog = NoMountLog

\* The relay while only the page is looked at.
RelayAtRest ==
  /\ bodyKind = "object"
  /\ body = EmptyBody
  /\ envToken = Undefined
  /\ pc = "start"
  /\ calls = <<>>
  /\ callsSettled = 0
  /\ remote = NoRemote
  /\ helper = NoHelper
  /\ thrown = NoThrow
  /\ response = NoResponse

RelayInit ==
  /\ bodyKind \in BodyKinds
  /\ body \in Bodies
  /\ bodyKind # "object" => body = EmptyBody
  /\ envToken \in EnvTokenValues
  /\ pc = "start"
  /\ calls = <<>>
  /\ callsSettled = 0
  /\ remote = NoRemote
  /\ helper = NoHelper
  /\ thrown = NoThrow
  /\ response = NoResponse
  /\ PageAtRest
  /\ InboxAtRest
  /\ TabsAtRest

\* await request.json()
PostReadBody ==
  /\ pc = "start"
  /\ IF bodyKind = "unparsable"
       THEN /\ thrown' = Raise("Unexpected end of JSON input")
            /\ response' = CatchResponse(thrown')
            /\ pc' = "done"
       ELSE /\ pc' = "validate"
            /\ UNCHANGED <<thrown, response>>
  /\ UNCHANGED <<bodyKind, body, envToken, calls, callsSettled, remote, helper>>
  /\ UNCHANGED <<pageVars, inboxVars, tabVars>>

\* The two validations of POST, up to the call of postMetaResponse.
PostValidate ==
  /\ pc = "validate"
  /\ IF bodyKind = "null"
       THEN /\ thrown' = Raise("Cannot read properties of null (reading 'platform')")
            /\ response' = CatchResponse(thrown')
            /\ pc' = "done"
       ELSE IF MissingRequired(body)
         THEN /\ response' = JsonResponse(400, FALSE, RequiredError, NoResponse.result)
              /\ pc' = "done"
              /\ UNCHANGED thrown
         ELSE IF InvalidChannel(body)
           THEN /\ response' = JsonResponse(400, FALSE, ChannelError, NoResponse.result)
                /\ pc' = "done"
                /\ UNCHANGED thrown
           ELSE /\ pc' = "helper"
                /\ UNCHANGED <<thrown, response>>
  /\ UNCHANGED <<bodyKind, body, envToken, calls, callsSettled, remote, helper>>
  /\ UNCHANGED <<pageVars, inboxVars, tabVars>>

\* ------------------------------------------------------------------------
\* postMetaResponse (lib/meta.ts)
\* ------------------------------------------------------------------------

\* The token of the call: the request's, else META_ACCESS_TOKEN.
ResolveToken(b, env) == IF Truthy(b.accessToken) THEN b.accessToken ELSE env

\* Dry-run mode: requested, or no token available.
IsDryRun(b, env) == Truthy(b.dryRun) \/ ~Truthy(ResolveToken(b, env))

\* Endpoint selection by (platform, channel).
EndpointNeedsBusinessId(b) == b.platform = "instagram"

Endpoint(b) ==
  IF EndpointNeedsBusinessId(b)
    THEN <<b.instagramBusinessAccountId, b.targetId, b.channel>>
    ELSE <<b.targetId, b.channel>>

DryRunResult(b) == [dryRun |-> TRUE, payload |-> b.message]
LiveResult(o) == [dryRun |-> FALSE, payload |-> o.json]

MetaDryRun ==
  /\ pc = "helper"
  /\ IsDryRun(HelperArgs(body), envToken)
  /\ helper' = [state |-> "returned", result |-> DryRunResult(HelperArgs(body))]
  /\ pc' = "settled"
  /\ UNCHANGED <<bodyKind, body, envToken, calls, callsSettled, remote, thrown, response>>
  /\ UNCHANGED <<pageVars, inboxVars, tabVars>>

MetaEndpointFails ==
  /\ pc = "helper"
  /\ ~IsDryRun(HelperArgs(body), envToken)
  /\ EndpointNeedsBusinessId(HelperArgs(body))
  /\ ~Truthy(HelperArgs(body).instagramBusinessAccountId)
  /\ helper' = [state |-> "threw", result |-> NoHelper.result]
  /\ thrown' = Raise("instagramBusinessAccountId is required")
  /\ pc' = "settled"
  /\ UNCHANGED <<bodyKind, body, envToken, calls, callsSettled, remote, response>>
  /\ UNCHANGED <<pageVars, inboxVars, tabVars>>

MetaStartCall ==
  /\ pc = "helper"
  /\ ~IsDryRun(HelperArgs(body), envToken)
  /\ EndpointNeedsBusinessId(HelperArgs(body)) => Truthy(HelperArgs(body).instagramBusinessAccountId)
  /\ calls' = Append(calls, [endpoint |-> Endpoint(HelperArgs(body)),
                             token |-> ResolveToken(HelperArgs(body), envToken),
                             message |-> HelperArgs(body).message])
  /\ pc' = "fetching"
  /\ UNCHANGED <<bodyKind, body, envToken, callsSettled, remote, helper, thrown, response>>
  /\ UNCHANGED <<pageVars, inboxVars, tabVars>>

MetaCallSettles ==
  /\ pc = "fetching"
  /\ \E o \in RemoteOutcomes :
       /\ remote' = o
       /\ callsSettled' = callsSettled + 1
       /\ IF RemoteOk(o)
            THEN /\ helper' = [state |-> "returned", result |-> LiveResult(o)]
                 /\ UNCHANGED thrown
            ELSE /\ helper' = [state |-> "threw", result |-> NoHelper.result]
                 /\ thrown' = Raise(o.message)
  /\ pc' = "settled"
  /\ UNCHANGED <<bodyKind, body, envToken, calls, response>>
  /\ UNCHANGED <<pageVars, inboxVars, tabVars>>

\* ------------------------------------------------------------------------
\* POST, after await postMetaResponse(...)
\* ------------------------------------------------------------------------

\* Variant without the await: POST goes on while the call is in flight.
HelperNotAwaited == pc \in {"fetching", "settled"}

\* The await of postMetaResponse: POST resumes once the helper has settled.
HelperAwaited == pc = "settled"

PostRespond ==
  /\ HelperAwaited
  /\ response' = IF helper.state = "returned"
                   THEN OkResponse(helper.result)
                   ELSE CatchResponse(thrown)
  /\ pc' = "done"
  /\ UNCHANGED <<bodyKind, body, envToken, calls, callsSettled, remote, helper, thrown>>
  /\ UNCHANGED <<pageVars, inboxVars, tabVars>>

RelayNext ==
  \/ PostReadBody
  \/ PostValidate
  \/ MetaDryRun
  \/ MetaEndpointFails
  \/ MetaStartCall
  \/ MetaCallSettles
  \/ PostRespond

SpecRelay == RelayInit /\ [][RelayNext]_vars

\* ------------------------------------------------------------------------
\* Dashboard page: mount effects and handlers
\* ------------------------------------------------------------------------

\* useState initial values of Home, with the mount effects still to run.
FreshPage ==
  /\ automations' = initialAutomations
  /\ pendingAutomations' = NoPending
  /\ newAutomation' = BlankAutomationForm
  /\ automationStatus' = "active"
  /\ automationFeedback' = Null
  /\ mount' = "load"

PageInit ==
  /\ strictMode \in BOOLEAN
  /\ automations = initialAutomations
  /\ pendingAutomations = NoPending
  /\ newAutomation = BlankAutomationForm
  /\ automationStatus = "active"
  /\ automationFeedback = Null
  /\ storage \in {NoItem, CorruptItem, ObjectItem}
  /\ mount = "load"
  /\ clock = 1
  /\ track = NoTrack
  /\ mountLog = NoMountLog
  /\ RelayAtRest
  /\ InboxAtRest
  /\ TabsAtRest

\* Variant of the persist effect that stores the list without its newest rule.
PersistedWithoutNewest(rules) ==
  JsonItem(IF rules = <<>> THEN rules ELSE Tail(rules))

\* The persist effect: setItem(key, JSON.stringify(automations)).
Persisted(rules) == JsonItem(rules)

\* The load effect: getItem, JSON.parse, setAutomations(parsed).
LoadEffect ==
  /\ mount \in {"load", "load2"}
  /\ pendingAutomations' =
       IF storage.kind = "json"
         THEN [set |-> TRUE, isList |-> TRUE, value |-> Parse(storage.text)]
         ELSE IF storage.kind = "object"
           THEN [set |-> TRUE, isList |-> FALSE, value |-> <<>>]
           ELSE pendingAutomations
  /\ mount' = IF mount = "load" THEN "persist" ELSE "persist2"
  /\ mountLog' = IF mount = "load"
                   THEN [mountLog EXCEPT !.read = storage.kind]
                   ELSE mountLog
  /\ UNCHANGED <<strictMode, automations, newAutomation, automationStatus,
                 automationFeedback, storage, clock, track>>
  /\ UNCHANGED <<relayVars, inboxVars, tabVars>>

\* The persist effect as it runs on mount, with the automations of the
\* first render.
PersistEffect ==
  /\ mount \in {"persist", "persist2"}
  /\ storage' = Persisted(automations)
  /\ mount' = IF mount = "persist" /\ strictMode THEN "load2"
              ELSE IF pendingAutomations.set THEN "commit" ELSE "idle"
  /\ UNCHANGED <<strictMode, automations, pendingAutomations, newAutomation,
                 automationStatus, automationFeedback, clock, track, mountLog>>
  /\ UNCHANGED <<relayVars, inboxVars, tabVars>>

\* The render of the state queued by the load effect, and the persist effect
\* that follows it because automations changed. When the queued value is
\* not an array, automations.map throws in the render: the page is taken
\* down and no effect of that render runs.
CommitLoaded ==
  /\ mount = "commit"
  /\ IF pendingAutomations.isList
       THEN /\ automations' = pendingAutomations.value
            /\ storage' = Persisted(automations')
            /\ mount' = "idle"
       ELSE /\ mount' = "crashed"
            /\ UNCHANGED <<automations, storage>>
  /\ pendingAutomations' = NoPending
  /\ UNCHANGED <<strictMode, newAutomation, automationStatus,
                 automationFeedback, clock, track, mountLog>>
  /\ UNCHANGED <<relayVars, inboxVars, tabVars>>

\* The user reloads the page: a new Home is mounted, the item stays.
Reload ==
  /\ mount \in {"idle", "crashed"}
  /\ FreshPage
  /\ track' = IF track.phase = "added"
                THEN [phase |-> "reloaded", list |-> track.list]
                ELSE NoTrack
  /\ mountLog' = IF mount = "idle"
                   THEN [read |-> "unread", reloaded |-> TRUE, before |-> automations]
                   ELSE NoMountLog
  /\ UNCHANGED <<strictMode, storage, clock>>
  /\ UNCHANGED <<relayVars, inboxVars, tabVars>>

\* Time passes.
Tick ==
  /\ clock < MaxClock
  /\ clock' = clock + 1
  /\ UNCHANGED <<strictMode, automations, pendingAutomations, newAutomation,
                 automationStatus, automationFeedback, storage, mount, track,
                 mountLog>>
  /\ UNCHANGED <<relayVars, inboxVars, tabVars>>

\* The onChange handlers of the form's inputs and selects.
EditAutomationForm ==
  /\ mount = "idle"
  /\ \/ \E n \in FormNames : newAutomation' = [newAutomation EXCEPT !.name = n]
     \/ \E t \in FormTriggers : newAutomation' = [newAutomation EXCEPT !.trigger = t]
     \/ \E r \in FormResponses : newAutomation' = [newAutomation EXCEPT !.response = r]
     \/ \E p \in FormPlatforms : newAutomation' = [newAutomation EXCEPT !.platform = p]
     \/ \E c \in FormChannels : newAutomation' = [newAutomation EXCEPT !.channel = c]
  /\ UNCHANGED <<strictMode, automations, pendingAutomations, automationStatus,
                 automationFeedback, storage, mount, clock, track, mountLog>>
  /\ UNCHANGED <<relayVars, inboxVars, tabVars>>

SelectAutomationStatus ==
  /\ mount = "idle"
  /\ \E st \in AutomationStatuses : automationStatus' = st
  /\ UNCHANGED <<strictMode, automations, pendingAutomations, newAutomation,
                 automationFeedback, storage, mount, clock, track, mountLog>>
  /\ UNCHANGED <<relayVars, inboxVars, tabVars>>

\* Variant of the rule that ignores the status select.
NewRuleAlwaysActive(form, st, now) ==
  [id |-> AutomationId(now), status |-> "active", name |-> form.name,
   platform |-> form.platform, channel |-> form.channel,
   trigger |-> form.trigger, response |-> form.response]

\* The rule addAutomation builds: id and status, then the form's fields.
NewRule(form, st, now) ==
  [id |-> AutomationId(now), status |-> st, name |-> form.name,
   platform |-> form.platform, channel |-> form.channel,
   trigger |-> form.trigger, response |-> form.response]

\* setAutomations((prev) => [rule, ...prev])
Prepend(rule, prev) == <<rule>> \o prev

addAutomation ==
  /\ mount = "idle"
  /\ IF \/ ~Truthy(newAutomation.name)
        \/ ~Truthy(newAutomation.trigger)
        \/ ~Truthy(newAutomation.response)
       THEN /\ automationFeedback' = ValidationFeedback
            /\ UNCHANGED <<automations, newAutomation, storage, track, mountLog>>
       ELSE /\ Len(automations) < MaxRules
            /\ automations' =
                 Prepend(NewRule(newAutomation, automationStatus, clock),
                         automations)
            /\ newAutomation' = BlankAutomationForm
            /\ automationFeedback' = CreatedFeedback(newAutomation.name)
            /\ storage' = Persisted(automations')
            /\ track' = [phase |-> "added", list |-> automations']
            /\ mountLog' = NoMountLog
  /\ UNCHANGED <<strictMode, pendingAutomations, automationStatus, mount, clock>>
  /\ UNCHANGED <<relayVars, inboxVars, tabVars>>

\* Variant of the toggle that flips every rule of the list.
ToggledEveryRule(prev, id) ==
  [i \in 1..Len(prev) |->
     [prev[i] EXCEPT !.status =
        IF prev[i].status = "active" THEN "paused" ELSE "active"]]

\* prev.map(rule => rule.id === id ? {...rule, status: flipped} : rule)
Toggled(prev, id) ==
  [i \in 1..Len(prev) |->
     IF prev[i].id = id
       THEN [prev[i] EXCEPT !.status =
               IF prev[i].status = "active" THEN "paused" ELSE "active"]
       ELSE prev[i]]

\* The Toggle button of a listed rule.
toggleAutomationStatus ==
  /\ mount = "idle"
  /\ \E i \in 1..Len(automations) :
       automations' = Toggled(automations, automations[i].id)
  /\ storage' = Persisted(automations')
  /\ track' = NoTrack
  /\ mountLog' = NoMountLog
  /\ UNCHANGED <<strictMode, pendingAutomations, newAutomation, automationStatus,
                 automationFeedback, mount, clock>>
  /\ UNCHANGED <<relayVars, inboxVars, tabVars>>

\* prev.filter(rule => rule.id !== id)
Deleted(prev, id) == SelectSeq(prev, LAMBDA rule : rule.id # id)

\* The Delete button of a listed rule.
deleteAutomation ==
  /\ mount = "idle"
  /\ \E i \in 1..Len(automations) :
       automations' = Deleted(automations, automations[i].id)
  /\ storage' = Persisted(automations')
  /\ track' = NoTrack
  /\ mountLog' = NoMountLog
  /\ UNCHANGED <<strictMode, pendingAutomations, newAutomation, automationStatus,
                 automationFeedback, mount, clock>>
  /\ UNCHANGED <<relayVars, inboxVars, tabVars>>

PageNext ==
  \/ LoadEffect
  \/ PersistEffect
  \/ CommitLoaded
  \/ Reload
  \/ Tick
  \/ EditAutomationForm
  \/ SelectAutomationStatus
  \/ addAutomation
  \/ toggleAutomationStatus
  \/ deleteAutomation

SpecPage == PageInit /\ [][PageNext]_vars

\* The page of a production build once it has mounted with no stored item:
\* the rule list and its form, without reloads.
RulesInit ==
  /\ strictMode = FALSE
  /\ automations = initialAutomations
  /\ pendingAutomations = NoPending
  /\ newAutomation = BlankAutomationForm
  /\ automationStatus = "active"
  /\ automationFeedback = Null
  /\ storage = Persisted(initialAutomations)
  /\ mount = "idle"
  /\ clock = 1
  /\ track = NoTrack
  /\ mountLog = [NoMountLog EXCEPT !.read = NoItem.kind]
  /\ RelayAtRest
  /\ InboxAtRest
  /\ TabsAtRest

RulesNext ==
  \/ Tick
  \/ EditAutomationForm
  \/ SelectAutomationStatus
  \/ addAutomation
  \/ toggleAutomationStatus
  \/ deleteAutomation

SpecRules == RulesInit /\ [][RulesNext]_vars

\* ------------------------------------------------------------------------
\* Dashboard page: selecting a message, composing and dispatching a reply
\* ------------------------------------------------------------------------

\* POST as a function of the request body, META_ACCESS_TOKEN and the outcome
\* of the remote call, if one is made.
RelayAnswer(b, env, o) ==
  IF MissingRequired(b)
    THEN JsonResponse(400, FALSE, RequiredError, NoResponse.result)
  ELSE IF InvalidChannel(b)
    THEN JsonResponse(400, FALSE, ChannelError, NoResponse.result)
  ELSE IF IsDryRun(HelperArgs(b), env)
    THEN OkResponse(DryRunResult(HelperArgs(b)))
  ELSE IF /\ EndpointNeedsBusinessId(HelperArgs(b))
          /\ ~Truthy(HelperArgs(b).instagramBusinessAccountId)
    THEN CatchResponse(Raise("instagramBusinessAccountId is required"))
  ELSE IF RemoteOk(o)
    THEN OkResponse(LiveResult(o))
    ELSE CatchResponse(Raise(o.message))

\* What fetch("/api/respond") can come back with: the relay's answer, a
\* rejection (no connection), an error page that is not JSON, or a JSON
\* answer of something in front of the relay.
Transports == {"relay", "rejected", "errorPage", "proxy"}

ProxyAnswer == JsonResponse(503, FALSE, "", NoResponse.result)

\* The JSON answer the fetch comes back with, where it comes back with one.
FetchAnswer(transport, payload, env, o) ==
  IF transport = "proxy" THEN ProxyAnswer ELSE RelayAnswer(payload, env, o)

RejectedError == "Meta API rejected the request. Double-check credentials."
SimulatedFeedback ==
  "Reply simulated successfully (dry run). Provide a Meta token to send for real."
DispatchedFeedback == "Reply dispatched successfully."

\* messages.find((message) => message.id === selectedMessageId): whether
\* there is such a message, and the first one if there is.
Found(msgs, id) == \E i \in 1..Len(msgs) : msgs[i].id = id

Find(msgs, id) ==
  msgs[CHOOSE i \in 1..Len(msgs) :
         /\ msgs[i].id = id
         /\ \A j \in 1..(i - 1) : msgs[j].id # id]

selectedMessage == Find(messages, selectedMessageId)

getChannelFromMessage(message) ==
  IF message.type = "comment" THEN "comment" ELSE "message"

\* Variant of the payload that asks for a dry run only while no token is set.
ReplyPayloadLiveWithToken(message, creds, reply) ==
  [platform |-> message.platform, targetId |-> message.id, message |-> reply,
   channel |-> getChannelFromMessage(message),
   dryRun |-> IF (IF message.platform = "facebook"
                    THEN creds.facebookToken ELSE creds.instagramToken) = ""
                THEN JsTrue ELSE JsFalse,
   accessToken |-> IF message.platform = "facebook"
                     THEN creds.facebookToken ELSE creds.instagramToken,
   instagramBusinessAccountId |->
     IF message.platform = "instagram"
       THEN creds.instagramBusinessId ELSE Undefined,
   replyToId |-> Undefined]

\* The payload of handleSendReply as the relay reads it: JSON.stringify
\* leaves out a property whose value is undefined.
ReplyPayload(message, creds, reply) ==
  [platform |-> message.platform, targetId |-> message.id, message |-> reply,
   channel |-> getChannelFromMessage(message),
   dryRun |-> JsTrue,
   accessToken |-> IF message.platform = "facebook"
                     THEN creds.facebookToken ELSE creds.instagramToken,
   instagramBusinessAccountId |->
     IF message.platform = "instagram"
       THEN creds.instagramBusinessId ELSE Undefined,
   replyToId |-> Undefined]

\* What the try block of handleSendReply throws, if anything, once the
\* fetch has come back.
ReplyError(transport, answer) ==
  IF transport = "rejected" THEN Raise("Failed to fetch")
  ELSE IF transport = "errorPage"
    THEN Raise("Unexpected token '<' is not valid JSON")
  ELSE IF ~(answer.status >= 200 /\ answer.status <= 299) \/ ~answer.ok
    THEN Raise(IF answer.error # "" THEN answer.error ELSE RejectedError)
    ELSE NoThrow

\* Variant that marks every message responded.
MarkRespondedAll(prev, id) ==
  [i \in 1..Len(prev) |-> [prev[i] EXCEPT !.status = "responded"]]

\* prev.map(... message.id === selectedMessage.id ? responded : message)
MarkResponded(prev, id) ==
  [i \in 1..Len(prev) |->
     IF prev[i].id = id THEN [prev[i] EXCEPT !.status = "responded"]
                        ELSE prev[i]]

\* data.result?.dryRun ? "scheduled" : "sent"
OutcomeOf(result) == IF result.dryRun THEN "scheduled" ELSE "sent"

SentEntry(message, result, now) ==
  [id |-> "log-" \o ToString(now), platform |-> message.platform,
   messageId |-> message.id,
   summary |-> "Sent " \o message.platform \o " " \o message.type \o " reply",
   timestamp |-> now, outcome |-> OutcomeOf(result),
   meta |-> [set |-> TRUE, result |-> result]]

ErrorEntry(message, e, now) ==
  [id |-> "log-error-" \o ToString(now), platform |-> message.platform,
   messageId |-> message.id,
   summary |-> "Failed to reply: " \o e.message,
   timestamp |-> now, outcome |-> "error",
   meta |-> [set |-> FALSE, result |-> NoResponse.result]]

\* Variant that puts a new entry at the end of the log.
LoggedLast(entry, prev) == Append(prev, entry)

\* setActivityLog((prev) => [entry, ...prev])
Logged(entry, prev) == <<entry>> \o prev

\* Variant that clears the composer after a failed dispatch as well.
ComposerAfterAlwaysCleared(e, value) == ""

\* setComposerValue("") is reached only when nothing was thrown.
ComposerAfter(e, value) == IF e.raised THEN value ELSE ""

\* toLowerCase() of the texts that are searched and searched for.
LowerCase(text) ==
  CASE text = "ALEX" -> "alex"
    [] text = "Alex Rivera" -> "alex rivera"
    [] text = "Sam Lee" -> "sam lee"
    [] text = "What is the pricing?" -> "what is the pricing?"
    [] text = "I need help with my order" -> "i need help with my order"
    [] OTHER -> text

\* hay.includes(needle), for the lower-case texts above.
Includes(hay, needle) ==
  \/ needle = ""
  \/ hay = needle
  \/ <<hay, needle>> \in {<<"alex rivera", "alex">>}

\* The filter of filteredMessages.
Matches(message, platform, status, term) ==
  /\ platform = "all" \/ message.platform = platform
  /\ status = "all" \/ message.status = status
  /\ \/ ~Truthy(term)
     \/ Includes(LowerCase(message.author), LowerCase(term))
     \/ Includes(LowerCase(message.snippet), LowerCase(term))

Filtered(msgs, platform, status, term) ==
  SelectSeq(msgs, LAMBDA message : Matches(message, platform, status, term))

filteredMessages == Filtered(messages, platformFilter, statusFilter, searchTerm)

\* Variant of the selection effect that moves the selection whenever the
\* filters hide the selected message.
SelectionEffectFollowsFilter(id, msgs, filtered) ==
  IF ~Found(filtered, id) /\ Len(filtered) > 0 THEN filtered[1].id ELSE id

\* The selection effect, run after a render: with no selected message and a
\* non-empty filtered list, the first filtered message is selected.
SelectionEffect(id, msgs, filtered) ==
  IF ~Found(msgs, id) /\ Len(filtered) > 0 THEN filtered[1].id ELSE id

\* The inbox list: a listed message is clicked.
SelectMessage ==
  /\ \E i \in 1..Len(filteredMessages) :
       selectedMessageId' = filteredMessages[i].id
  /\ UNCHANGED <<messages, credentials, composerValue, isSending,
                 composerFeedback, activityLog, inflight, platformFilter,
                 statusFilter, searchTerm, dispatches>>
  /\ UNCHANGED <<relayVars, pageVars, tabVars>>

\* The filter bar: a platform is picked.
setPlatformFilter ==
  /\ \E filter \in PlatformFilters : platformFilter' = filter
  /\ selectedMessageId' =
       SelectionEffect(selectedMessageId, messages,
                       Filtered(messages, platformFilter', statusFilter,
                                searchTerm))
  /\ UNCHANGED <<messages, credentials, composerValue, isSending,
                 composerFeedback, activityLog, inflight, statusFilter,
                 searchTerm, dispatches>>
  /\ UNCHANGED <<relayVars, pageVars, tabVars>>

\* The filter bar: a status is picked.
setStatusFilter ==
  /\ \E status \in StatusFilters : statusFilter' = status
  /\ selectedMessageId' =
       SelectionEffect(selectedMessageId, messages,
                       Filtered(messages, platformFilter, statusFilter',
                                searchTerm))
  /\ UNCHANGED <<messages, credentials, composerValue, isSending,
                 composerFeedback, activityLog, inflight, platformFilter,
                 searchTerm, dispatches>>
  /\ UNCHANGED <<relayVars, pageVars, tabVars>>

\* The search box is edited.
setSearchTerm ==
  /\ \E term \in SearchTerms : searchTerm' = term
  /\ selectedMessageId' =
       SelectionEffect(selectedMessageId, messages,
                       Filtered(messages, platformFilter, statusFilter,
                                searchTerm'))
  /\ UNCHANGED <<messages, credentials, composerValue, isSending,
                 composerFeedback, activityLog, inflight, platformFilter,
                 statusFilter, dispatches>>
  /\ UNCHANGED <<relayVars, pageVars, tabVars>>

\* The connection cards: a credential is typed.
handleCredentialChange ==
  /\ \E key \in DOMAIN CredentialValues : \E value \in CredentialValues[key] :
       credentials' = [credentials EXCEPT ![key] = value]
  /\ UNCHANGED <<messages, selectedMessageId, composerValue, isSending,
                 composerFeedback, activityLog, inflight, platformFilter,
                 statusFilter, searchTerm, dispatches>>
  /\ UNCHANGED <<relayVars, pageVars, tabVars>>

\* selectedMessage.author.split(" ")[0]
FirstName(author) ==
  CASE author = "Alex Rivera" -> "Alex"
    [] author = "Sam Lee" -> "Sam"
    [] OTHER -> author

\* The first quick reply of hydrateQuickReplies; the other two differ in
\* their wording only.
QuickReply(message) ==
  "Hey " \o FirstName(message.author) \o "! Really appreciate you reaching out."

\* The composer: a quick reply is picked.
pickQuickReply ==
  /\ Found(messages, selectedMessageId)
  /\ composerValue' = QuickReply(selectedMessage)
  /\ UNCHANGED <<messages, selectedMessageId, credentials, isSending,
                 composerFeedback, activityLog, inflight, platformFilter,
                 statusFilter, searchTerm, dispatches>>
  /\ UNCHANGED <<relayVars, pageVars, tabVars>>

\* The composer: the textarea is edited.
EditComposer ==
  /\ \E value \in ComposerValues : composerValue' = value
  /\ UNCHANGED <<messages, selectedMessageId, credentials, isSending,
                 composerFeedback, activityLog, inflight, platformFilter,
                 statusFilter, searchTerm, dispatches>>
  /\ UNCHANGED <<relayVars, pageVars, tabVars>>

\* Variant of the finally block that leaves isSending set after a failure.
SendingAfterOnlyOnSuccess(e) == e.raised

\* finally { setIsSending(false) }
SendingAfter(e) == FALSE

\* Variant of the send button that stays enabled while a reply is sent.
SendEnabledWhileSending(value, sending) == Truthy(value)

\* disabled={!composerValue || isSending}
SendEnabled(value, sending) == Truthy(value) /\ ~sending

\* The send button, up to await fetch(...). Without a selected message the
\* call returns at once.
handleSendReply ==
  /\ SendEnabled(composerValue, isSending)
  /\ dispatches.pressed < MaxDispatches
  /\ IF Found(messages, selectedMessageId)
       THEN /\ isSending' = TRUE
            /\ composerFeedback' = Null
            /\ inflight' = [active |-> TRUE, message |-> selectedMessage,
                            payload |-> ReplyPayload(selectedMessage,
                                                     credentials,
                                                     composerValue)]
            /\ dispatches' = [dispatches EXCEPT
                                !.pressed = dispatches.pressed + 1,
                                !.requested = dispatches.requested + 1]
       ELSE /\ dispatches' = [dispatches EXCEPT
                                !.pressed = dispatches.pressed + 1]
            /\ UNCHANGED <<isSending, composerFeedback, inflight>>
  /\ UNCHANGED <<messages, selectedMessageId, credentials, composerValue,
                 activityLog, platformFilter, statusFilter, searchTerm>>
  /\ UNCHANGED <<relayVars, pageVars, tabVars>>

\* handleSendReply from the moment the fetch comes back to its end, and the
\* selection effect of the render that follows.
ReplySettles(transport, env, o) ==
  LET answer == FetchAnswer(transport, inflight.payload, env, o)
      e == ReplyError(transport, answer)
  IN /\ inflight.active
     /\ IF e.raised
          THEN /\ activityLog' =
                    Logged(ErrorEntry(inflight.message, e, clock), activityLog)
               /\ composerFeedback' = e.message
               /\ UNCHANGED messages
          ELSE /\ messages' = MarkResponded(messages, inflight.message.id)
               /\ activityLog' =
                    Logged(SentEntry(inflight.message, answer.result, clock),
                           activityLog)
               /\ composerFeedback' = IF answer.result.dryRun
                                        THEN SimulatedFeedback
                                        ELSE DispatchedFeedback
     /\ composerValue' = ComposerAfter(e, composerValue)
     /\ isSending' = SendingAfter(e)
     /\ inflight' = NoDispatch
     /\ dispatches' = [dispatches EXCEPT !.ended = dispatches.ended + 1]
     /\ selectedMessageId' =
          SelectionEffect(selectedMessageId, messages',
                          Filtered(messages', platformFilter, statusFilter,
                                   searchTerm))
     /\ UNCHANGED <<credentials, platformFilter, statusFilter, searchTerm>>
     /\ UNCHANGED <<relayVars, pageVars, tabVars>>

ReplyAnswered ==
  \E env \in EnvTokenValues : \E o \in RemoteOutcomes :
    ReplySettles("relay", env, o)

ReplyFails ==
  \E transport \in Transports \ {"relay"} :
    ReplySettles(transport, Undefined, NoRemote)

InboxInit ==
  /\ InboxAtRest
  /\ RelayAtRest
  /\ PageAtRest
  /\ TabsAtRest

\* The inbox with its filters left as they are.
InboxNext ==
  \/ SelectMessage
  \/ handleCredentialChange
  \/ EditComposer
  \/ handleSendReply
  \/ ReplyAnswered
  \/ ReplyFails

SpecInbox == InboxInit /\ [][InboxNext]_vars

\* The composer with the connection cards and the filters left as they
\* are, where a request that has been made is answered or fails in the end.
ComposerNext ==
  \/ SelectMessage
  \/ EditComposer
  \/ handleSendReply
  \/ ReplyAnswered
  \/ ReplyFails

SpecComposerLive ==
  /\ InboxInit
  /\ [][ComposerNext]_vars
  /\ WF_vars(ReplyAnswered \/ ReplyFails)

\* The composer with its quick replies, the connection cards and the
\* filters left as they are.
DraftsNext ==
  \/ SelectMessage
  \/ EditComposer
  \/ pickQuickReply
  \/ handleSendReply
  \/ ReplyAnswered
  \/ ReplyFails

SpecDrafts == InboxInit /\ [][DraftsNext]_vars

\* The inbox with its filters, the connection cards left as they are.
FiltersNext ==
  \/ SelectMessage
  \/ setPlatformFilter
  \/ setStatusFilter
  \/ setSearchTerm
  \/ EditComposer
  \/ handleSendReply
  \/ ReplyAnswered
  \/ ReplyFails

SpecFilters == InboxInit /\ [][FiltersNext]_vars

\* ------------------------------------------------------------------------
\* Two tabs of the dashboard on one local storage
\* ------------------------------------------------------------------------

\* The forms addAutomation accepts, out of what the user can type.
FilledForms ==
  {f \in [name : FormNames, platform : FormPlatforms, channel : FormChannels,
          trigger : FormTriggers, response : FormResponses] :
     Truthy(f.name) /\ Truthy(f.trigger) /\ Truthy(f.response)}

\* The load effect of a tab that is opened.
TabLoadEffect(t) ==
  /\ tabs[t].mount = "closed"
  /\ tabs' = [tabs EXCEPT
       ![t].pending =
          IF storage.kind = "json"
            THEN [set |-> TRUE, isList |-> TRUE, value |-> Parse(storage.text)]
            ELSE NoPending,
       ![t].mount = "persist"]
  /\ UNCHANGED <<tabOps, relayVars, pageVars, inboxVars>>

\* The persist effect of the tab's first render.
TabPersistEffect(t) ==
  /\ tabs[t].mount = "persist"
  /\ storage' = Persisted(tabs[t].automations)
  /\ tabs' = [tabs EXCEPT
       ![t].mount = IF tabs[t].pending.set THEN "commit" ELSE "idle"]
  /\ UNCHANGED <<strictMode, automations, pendingAutomations, newAutomation,
                 automationStatus, automationFeedback, mount, clock, track,
                 mountLog>>
  /\ UNCHANGED <<tabOps, relayVars, inboxVars>>

\* The render of the list the tab has loaded, and its persist effect.
TabCommitLoaded(t) ==
  /\ tabs[t].mount = "commit"
  /\ tabs' = [tabs EXCEPT ![t].automations = tabs[t].pending.value,
                          ![t].pending = NoPending,
                          ![t].mount = "idle"]
  /\ storage' = Persisted(tabs'[t].automations)
  /\ UNCHANGED <<strictMode, automations, pendingAutomations, newAutomation,
                 automationStatus, automationFeedback, mount, clock, track,
                 mountLog>>
  /\ UNCHANGED <<tabOps, relayVars, inboxVars>>

\* A change of the tab's rule list by one of its buttons, and the persist
\* effect that follows.
TabSetAutomations(t, rules) ==
  /\ tabs[t].mount = "idle"
  /\ tabOps < MaxTabOps
  /\ tabOps' = tabOps + 1
  /\ tabs' = [tabs EXCEPT ![t].automations = rules]
  /\ storage' = Persisted(rules)
  /\ UNCHANGED <<strictMode, automations, pendingAutomations, newAutomation,
                 automationStatus, automationFeedback, mount, clock, track,
                 mountLog>>
  /\ UNCHANGED <<relayVars, inboxVars>>

TabAdd(t) ==
  /\ Len(tabs[t].automations) < MaxRules
  /\ \E form \in FilledForms : \E st \in AutomationStatuses :
       TabSetAutomations(t, Prepend(NewRule(form, st, clock),
                                    tabs[t].automations))

TabToggle(t) ==
  \E i \in 1..Len(tabs[t].automations) :
    TabSetAutomations(t, Toggled(tabs[t].automations,
                                 tabs[t].automations[i].id))

TabDelete(t) ==
  \E i \in 1..Len(tabs[t].automations) :
    TabSetAutomations(t, Deleted(tabs[t].automations,
                                 tabs[t].automations[i].id))

TabsInit ==
  /\ TabsAtRest
  /\ PageAtRest
  /\ RelayAtRest
  /\ InboxAtRest

TabsNext ==
  \/ \E t \in Tabs : TabLoadEffect(t)
  \/ \E t \in Tabs : TabPersistEffect(t)
  \/ \E t \in Tabs : TabCommitLoaded(t)
  \/ \E t \in Tabs : TabAdd(t)
  \/ \E t \in Tabs : TabToggle(t)
  \/ \E t \in Tabs : TabDelete(t)
  \/ Tick

SpecTabs == TabsInit /\ [][TabsNext]_vars

\* ------------------------------------------------------------------------
\* Properties of the respond relay
\* ------------------------------------------------------------------------

RequiredFields == {"platform", "targetId", "message", "channel"}

\* The request is a JSON object.
IsRecord == bodyKind = "object"
\* Some required property is not in the object.
SomeRequiredAbsent == \E f \in RequiredFields : body[f] = Undefined
\* All four required properties are in the object.
AllRequiredSupplied == \A f \in RequiredFields : body[f] # Undefined
\* Some required property is in the object, with the empty string as value.
SomeRequiredEmpty == \E f \in RequiredFields : body[f] = ""
ChannelIsValid == body.channel \in {"comment", "message"}
\* A request that passes validation: four values, and a known channel.
ValidRequest ==
  /\ IsRecord
  /\ \A f \in RequiredFields : body[f] \notin {Undefined, ""}
  /\ ChannelIsValid
\* No token: neither in the request nor in the environment.
NoTokenAvailable == body.accessToken = Undefined /\ envToken = Undefined
\* A request that is to be dispatched for real.
LiveRequest ==
  /\ ValidRequest
  /\ body.dryRun # JsTrue
  /\ ~NoTokenAvailable
BusinessIdOmitted == body.instagramBusinessAccountId = Undefined
Responded == pc = "done" /\ response.sent

C2_InvalidChannelIs400 ==
  (Responded /\ IsRecord /\ AllRequiredSupplied /\ ~ChannelIsValid)
    => (response.status = 400 /\ ~response.ok)

C2_Witness ==
  /\ Responded /\ IsRecord
  /\ body.channel = "story"
  /\ body.platform = "facebook" /\ body.targetId = "123" /\ body.message = "hi"
  /\ response.status = 400 /\ response.error = ChannelError

\* C3: a valid request with dryRun true never starts an outbound call, token
\* or not, and is answered with status 200, ok true and a result whose
\* dryRun is true.
C3_DryRunNoOutboundCall ==
  (ValidRequest /\ body.dryRun = JsTrue)
    => /\ calls = <<>>
       /\ pc = "done" =>
            /\ response.sent /\ response.status = 200 /\ response.ok
            /\ response.result.dryRun

C3_Witness ==
  /\ Responded /\ ValidRequest
  /\ body.dryRun = JsTrue
  /\ body.accessToken = "req-token"
  /\ body.platform = "facebook" /\ body.channel = "comment"
  /\ response.status = 200 /\ response.result.dryRun

\* C4: a valid request with no token available (none in the request, no
\* META_ACCESS_TOKEN) never starts an outbound call and is answered with
\* the simulated dry-run success, also when dryRun is false or omitted; a
\* call made for a request without accessToken carries META_ACCESS_TOKEN.
C4_NoTokenMeansDryRun ==
  /\ (ValidRequest /\ NoTokenAvailable)
       => /\ calls = <<>>
          /\ pc = "done" =>
               /\ response.sent /\ response.status = 200 /\ response.ok
               /\ response.result.dryRun
  /\ (ValidRequest /\ body.accessToken = Undefined)
       => \A i \in 1..Len(calls) : calls[i].token = envToken

C4_Witness ==
  /\ Responded /\ ValidRequest /\ NoTokenAvailable
  /\ body.dryRun = JsFalse
  /\ response.status = 200 /\ response.result.dryRun

C4_WitnessEnvToken ==
  /\ Responded /\ ValidRequest
  /\ body.accessToken = Undefined /\ envToken = "env-token"
  /\ Len(calls) = 1 /\ calls[1].token = "env-token"

\* C5: an invocation starts at most one outbound call, and its response is
\* produced only once that call has completed; a failed call is not
\* started again.
C5_AtMostOneCallAwaited ==
  /\ Len(calls) <= 1
  /\ callsSettled <= Len(calls)
  /\ response.sent => callsSettled = Len(calls)

C5_Witness ==
  /\ Responded
  /\ Len(calls) = 1 /\ callsSettled = 1
  /\ remote.kind = "network"

\* C6: whatever step throws, the handler answers with status 500, ok false
\* and the thrown error's message; the handler always ends with a response.
C6_ThrownErrorIs500 ==
  /\ pc = "done" => response.sent
  /\ (thrown.raised /\ pc = "done")
       => /\ response.status = 500
          /\ ~response.ok
          /\ response.error = thrown.message

C6_Witness ==
  /\ Responded
  /\ thrown.raised
  /\ remote.kind = "response" /\ remote.status = 400
  /\ response.status = 500
  /\ response.error = "Invalid OAuth access token"

C9_Only400WhenAbsentOrBadChannel ==
  (Responded /\ IsRecord)
    => (response.status = 400 <=> (SomeRequiredAbsent \/ ~ChannelIsValid))

\* C9 amended: a JSON-object request is answered with 400 exactly when a
\* required property is absent or empty, or the channel is not
\* comment/message; nothing else (platform outside facebook/instagram,
\* the id's format, the length of a non-empty message) leads to 400.
C9_Only400WhenFalsyOrBadChannel ==
  (Responded /\ IsRecord)
    => (response.status = 400
          <=> (SomeRequiredAbsent \/ SomeRequiredEmpty \/ ~ChannelIsValid))

C9_Witness ==
  /\ Responded /\ IsRecord
  /\ body.platform = "tiktok" /\ body.targetId = "123"
  /\ body.message = "hi" /\ body.channel = "comment"
  /\ response.status # 400

C9_WitnessEmpty ==
  /\ Responded /\ IsRecord
  /\ AllRequiredSupplied /\ ChannelIsValid /\ body.message = ""
  /\ response.status = 400

\* ------------------------------------------------------------------------
\* Properties of the automation rule store
\* ------------------------------------------------------------------------

\* The page has been reloaded right after a successful addAutomation, and
\* the mount effects of the reload have settled.
ReloadedAfterAdd == track.phase = "reloaded" /\ mount = "idle"

\* C10: after a successful addAutomation of rule r on list L and a reload,
\* the rule list in memory is [r] followed by L: same rules, same field
\* values, same order.
C10_AddThenReloadRoundTrip ==
  ReloadedAfterAdd => automations = track.list

\* The mount effects of the page have run to their end: the page is up, or
\* its render has thrown.
MountOver == mount \in {"idle", "crashed"}

\* The page was reloaded, its mount effects have settled, and no rule has
\* been added, toggled or deleted since.
SettledAfterReload == mountLog.reloaded /\ MountOver

\* C11: after add, toggle and delete operations and a reload, once the mount
\* effects have settled, the list in memory and the stored list both equal
\* the list that was in memory before the reload, also when the mount
\* effects are run twice.
C11_RulesSurviveReload ==
  SettledAfterReload
    => /\ mount = "idle"
       /\ automations = mountLog.before
       /\ storage = JsonItem(mountLog.before)

\* The item read by the load effect of this mount was malformed: not JSON,
\* or JSON that is not a rule list.
MalformedAtMount == mountLog.read \in {"corrupt", "object"}

\* C12: a malformed stored value is ignored at mount: the page comes up
\* without error, with the built-in default list in memory, and its
\* handlers stay usable.
C12_MalformedItemIgnored ==
  (MalformedAtMount /\ MountOver)
    => /\ mount = "idle"
       /\ automations = initialAutomations

\* The form lacks a name, a trigger or a response.
FormIncomplete ==
  \/ newAutomation.name = ""
  \/ newAutomation.trigger = ""
  \/ newAutomation.response = ""

\* C13: addAutomation with an empty name, trigger or response reports the
\* validation message and leaves the rule list, the stored list and the
\* form as they are; with all three filled in it prepends exactly one rule
\* that carries the form's values and the selected status, and resets the
\* form.
C13_AddValidatesThenPrepends ==
  [][addAutomation =>
       IF FormIncomplete
         THEN /\ automationFeedback' = ValidationFeedback
              /\ automations' = automations
              /\ storage' = storage
              /\ newAutomation' = newAutomation
         ELSE /\ Len(automations') = Len(automations) + 1
              /\ Tail(automations') = automations
              /\ Head(automations').name = newAutomation.name
              /\ Head(automations').trigger = newAutomation.trigger
              /\ Head(automations').response = newAutomation.response
              /\ Head(automations').platform = newAutomation.platform
              /\ Head(automations').channel = newAutomation.channel
              /\ Head(automations').status = automationStatus
              /\ newAutomation' = BlankAutomationForm
              /\ automationFeedback' # ValidationFeedback]_vars

C13_Witness ==
  /\ mount = "idle"
  /\ automationFeedback = CreatedFeedback("VIP")
  /\ newAutomation = BlankAutomationForm
  /\ Len(automations) = 3
  /\ automations[1].name = "VIP" /\ automations[1].status = "paused"
  /\ automations[2].id = "auto-lead"
  /\ storage = JsonItem(automations)

C13_WitnessRejected ==
  /\ mount = "idle"
  /\ automationFeedback = ValidationFeedback
  /\ newAutomation.name = "VIP" /\ newAutomation.trigger = ""
  /\ automations = initialAutomations

RuleIdsOf(rules) == {rules[i].id : i \in 1..Len(rules)}
\* An id no rule has: the clock starts at 1.
AbsentRuleId == "automation-0"
OtherStatus(st) == IF st = "active" THEN "paused" ELSE "active"
RuleFieldsButStatus == {"id", "name", "platform", "channel", "trigger", "response"}

\* The positions of rules that do not carry id, and the j-th of them.
KeptPositions(rules, id) == {i \in 1..Len(rules) : rules[i].id # id}
KeptPosition(rules, id, j) ==
  CHOOSE i \in KeptPositions(rules, id) :
    Cardinality({k \in KeptPositions(rules, id) : k <= i}) = j

\* after is rules with the status of the rules carrying id flipped and
\* nothing else changed.
IsToggleOf(rules, id, after) ==
  /\ Len(after) = Len(rules)
  /\ \A i \in 1..Len(rules) :
       IF rules[i].id = id
         THEN /\ after[i].status = OtherStatus(rules[i].status)
              /\ \A f \in RuleFieldsButStatus : after[i][f] = rules[i][f]
         ELSE after[i] = rules[i]

\* after is rules without the rules carrying id, the rest in their order.
IsDeleteOf(rules, id, after) ==
  /\ Len(after) = Cardinality(KeptPositions(rules, id))
  /\ \A j \in 1..Len(after) : after[j] = rules[KeptPosition(rules, id, j)]

\* C19: on the rule list of every reachable state, toggleAutomationStatus(id)
\* flips the status of the rule with that id and changes no other field, no
\* other rule, nor the length or order of the list, so that toggling twice
\* gives the list back; deleteAutomation(id) removes the rule with that id
\* and keeps the others in their order; for an id that is not in the list
\* both give the list back unchanged.
C19_ToggleAndDeleteFrame ==
  \A id \in RuleIdsOf(automations) \cup {AbsentRuleId} :
    /\ IsToggleOf(automations, id, Toggled(automations, id))
    /\ Toggled(Toggled(automations, id), id) = automations
    /\ IsDeleteOf(automations, id, Deleted(automations, id))
    /\ id \notin RuleIdsOf(Deleted(automations, id))
    /\ id \notin RuleIdsOf(automations) =>
         /\ Toggled(automations, id) = automations
         /\ Deleted(automations, id) = automations

\* A rule was added in front, the middle rule auto-lead deleted, and the
\* last rule toggled.
C19_Witness ==
  /\ mount = "idle"
  /\ Len(automations) = 2
  /\ automations[1].id = "automation-1"
  /\ automations[2] = [initialAutomations[2] EXCEPT !.status = "paused"]
  /\ storage = JsonItem(automations)

\* C20: in every reachable state the rules of the list have pairwise
\* distinct ids.
C20_RuleIdsDistinct ==
  \A i, j \in 1..Len(automations) :
    i # j => automations[i].id # automations[j].id

\* ------------------------------------------------------------------------
\* Properties of the reply dispatch
\* ------------------------------------------------------------------------

\* The step in which the dispatch in flight comes to its end.
DispatchEnds == inflight.active /\ ~inflight'.active

\* The ways the dispatch in flight can end.
Endings ==
  (({"relay"} \X EnvTokenValues) \X RemoteOutcomes)
    \cup (((Transports \ {"relay"}) \X {Undefined}) \X {NoRemote})

EndingError(x) ==
  ReplyError(x[1][1], FetchAnswer(x[1][1], inflight.payload, x[1][2], x[2]))

EndingResult(x) ==
  FetchAnswer(x[1][1], inflight.payload, x[1][2], x[2]).result

\* The dispatch in flight ends this step, and ends in failure.
DispatchFails ==
  \E x \in Endings :
    /\ ReplySettles(x[1][1], x[1][2], x[2])
    /\ EndingError(x).raised

\* C14: a dispatch that fails (rejected fetch, answer that is not JSON,
\* non-ok status or ok:false body) puts exactly one entry with outcome
\* "error" at the head of the activity log, leaves the composer text and
\* every message as they were, and leaves no dispatch in flight: nothing is
\* sent again until the user presses send.
C14_FailedDispatchLoggedOnce ==
  [][DispatchFails =>
       /\ Len(activityLog') = Len(activityLog) + 1
       /\ Tail(activityLog') = activityLog
       /\ Head(activityLog').outcome = "error"
       /\ Head(activityLog').messageId = inflight.message.id
       /\ composerValue' = composerValue
       /\ messages' = messages
       /\ ~inflight'.active
       /\ ~isSending']_vars

\* A dispatch has failed on an answer with a non-ok status: the log's head
\* is its error entry, the composer still holds the text, no message has
\* been marked and nothing is in flight.
C14_Witness ==
  /\ activityLog # <<>>
  /\ Head(activityLog).outcome = "error"
  /\ Head(activityLog).summary = "Failed to reply: " \o RejectedError
  /\ composerFeedback = RejectedError
  /\ composerValue # ""
  /\ messages = sampleMessages
  /\ ~inflight.active

\* C15: the activity log only grows, at its head, by one entry per dispatch
\* that ends, and in no other step: the entries already there keep their
\* content and order. The new entry names the message of the dispatch and
\* its outcome is "scheduled" for a dry-run result, "sent" for a live
\* result and "error" for a failed dispatch.
C15_LogAppendOnlyNewestFirst ==
  [][IF DispatchEnds
       THEN /\ activityLog' # <<>>
            /\ Tail(activityLog') = activityLog
            /\ Head(activityLog').messageId = inflight.message.id
            /\ \E x \in Endings :
                 /\ ReplySettles(x[1][1], x[1][2], x[2])
                 /\ Head(activityLog').outcome =
                      IF EndingError(x).raised THEN "error"
                      ELSE IF EndingResult(x).dryRun THEN "scheduled"
                      ELSE "sent"
       ELSE activityLog' = activityLog]_vars

\* Two dispatches have ended: the later one, a dry run for the second
\* message, is at the head; the earlier one, a failure for the first
\* message, is behind it.
C15_Witness ==
  /\ Len(activityLog) = 2
  /\ activityLog[1].outcome = "scheduled"
  /\ activityLog[1].messageId = sampleMessages[2].id
  /\ activityLog[2].outcome = "error"
  /\ activityLog[2].messageId = sampleMessages[1].id
  /\ ~inflight.active

\* The messages are the sample messages but for their status.
SampleButStatus(msgs) ==
  /\ Len(msgs) = Len(sampleMessages)
  /\ \A i \in 1..Len(msgs) :
       [msgs[i] EXCEPT !.status = sampleMessages[i].status] = sampleMessages[i]

\* C16: the messages are always the seeded sample messages, in their order,
\* with every field but the status as seeded. A status changes only to
\* "responded", only in the step that ends a successful dispatch, only for
\* the message that dispatch was sent for; a status that is "responded"
\* stays "responded".
C16_MessageLifecycle ==
  [][/\ SampleButStatus(messages')
     /\ \A i \in 1..Len(messages) :
          /\ messages'[i].status # messages[i].status =>
               /\ messages'[i].status = "responded"
               /\ DispatchEnds
               /\ ~DispatchFails
               /\ inflight.message.id = messages[i].id
          /\ messages[i].status = "responded" =>
               messages'[i].status = "responded"]_vars

\* A reply for the first message has gone through while the second message
\* was selected afterwards: only the first is responded.
C16_Witness ==
  /\ messages[1].status = "responded"
  /\ messages[2].status = sampleMessages[2].status
  /\ selectedMessageId = messages[2].id
  /\ activityLog # <<>>
  /\ Head(activityLog).outcome = "scheduled"
  /\ Head(activityLog).messageId = messages[1].id
  /\ ~inflight.active

\* The token entered for the platform of the dispatch in flight.
TokenEntered == inflight.payload.accessToken # ""

\* C17: the composer sends a dry run only until a token is provided: the
\* request of a dispatch whose platform token is empty ends in a dry run,
\* and the request of a dispatch whose platform token has been entered
\* does not ask for a dry run.
C17_DryRunOnlyUntilToken ==
  inflight.active =>
    /\ ~TokenEntered =>
         \A o \in RemoteOutcomes :
           /\ RelayAnswer(inflight.payload, Undefined, o).ok
           /\ RelayAnswer(inflight.payload, Undefined, o).result.dryRun
    /\ TokenEntered => ~Truthy(inflight.payload.dryRun)

\* ------------------------------------------------------------------------
\* Properties of two tabs on one local storage
\* ------------------------------------------------------------------------

\* The persist effect of tab t runs in this step.
TabPersists(t) ==
  \/ TabPersistEffect(t)
  \/ TabCommitLoaded(t)
  \/ TabAdd(t)
  \/ TabToggle(t)
  \/ TabDelete(t)

\* C18: with two tabs on the one local-storage key the last writer wins:
\* whenever the persist effect of a tab runs, the item becomes that tab's
\* whole rule list, whatever the other tab had stored, and the item changes
\* in no other step. So a rule one tab has added and stored is gone from
\* the item after a later change in a tab that had mounted before.
C18_LastWriterWins ==
  [][/\ \A t \in Tabs :
          TabPersists(t) =>
            /\ storage'.kind = "json"
            /\ Parse(storage'.text) = tabs'[t].automations
     /\ storage' # storage => \E t \in Tabs : TabPersists(t)]_vars

\* Both tabs are mounted and have made one change each: tab 2 has added a
\* rule, then tab 1, which never had that rule, has toggled one of its own:
\* the item is tab 1's list, without the rule tab 2 added.
C18_Witness ==
  /\ tabOps = 2
  /\ tabs[1].mount = "idle"
  /\ tabs[2].mount = "idle"
  /\ tabs[1].automations = Toggled(initialAutomations, initialAutomations[1].id)
  /\ Len(tabs[2].automations) = 3
  /\ Tail(tabs[2].automations) = initialAutomations
  /\ storage = JsonItem(tabs[1].automations)
  /\ Head(tabs[2].automations).id \notin RuleIdsOf(Parse(storage.text))

\* ------------------------------------------------------------------------
\* Properties of the send control and of the selection
\* ------------------------------------------------------------------------

\* The requests to /api/respond that have not ended yet.
InFlight == dispatches.requested - dispatches.ended

\* C21: at most one dispatch of the dashboard is in flight at any time:
\* while isSending is true the send button is disabled, so no second
\* handleSendReply starts before the first has ended, and as many requests
\* have been made to /api/respond as the send button has been pressed.
C21_OneDispatchInFlight ==
  /\ InFlight \in {0, 1}
  /\ InFlight = 1 <=> inflight.active
  /\ isSending => ~SendEnabled(composerValue, isSending)
  /\ dispatches.requested = dispatches.pressed

\* A second send has been pressed after the first one ended, and is in
\* flight with text in the composer.
C21_Witness ==
  /\ dispatches.pressed = 2
  /\ dispatches.ended = 1
  /\ inflight.active
  /\ isSending
  /\ Truthy(composerValue)

\* C22: isSending is true exactly while a dispatch is in flight, and every
\* handleSendReply that has set it sets it back to false, whether the
\* dispatch succeeds or fails, provided the request is answered or fails in
\* the end; a call without a selected message leaves isSending as it is.
C22_SendingExactlyWhileInFlight ==
  /\ [](isSending <=> inflight.active)
  /\ [][(handleSendReply /\ ~Found(messages, selectedMessageId)) =>
          isSending' = isSending]_vars
  /\ (isSending ~> ~isSending)

\* A dispatch has failed and isSending is false again.
C22_Witness ==
  /\ dispatches.requested = 1
  /\ dispatches.ended = 1
  /\ activityLog # <<>>
  /\ Head(activityLog).outcome = "error"
  /\ ~isSending
  /\ ~inflight.active

\* The user has moved on while the dispatch is in flight: another message
\* is selected and the composer holds a text other than the one sent.
MovedOnWhileInFlight ==
  /\ inflight.active
  /\ selectedMessageId # inflight.message.id
  /\ composerValue # inflight.payload.message

\* The end of a dispatch touches only the message it was sent for.
EndTouchesOnlyItsMessage ==
  /\ \A i \in 1..Len(messages) :
       messages'[i] # messages[i] =>
         /\ messages[i].id = inflight.message.id
         /\ messages'[i] = [messages[i] EXCEPT !.status = "responded"]
  /\ Head(activityLog').messageId = inflight.message.id
  /\ selectedMessageId' = selectedMessageId

\* C23: when the user has selected another message or edited the composer
\* while a dispatch is in flight, the end of that dispatch marks only the
\* message it was sent for, logs an entry naming that message, leaves the
\* selection alone, and does not discard the text typed in the composer for
\* the newly selected message.
C23_CompletionKeepsNewDraft ==
  [][DispatchEnds =>
       /\ EndTouchesOnlyItsMessage
       /\ MovedOnWhileInFlight => composerValue' = composerValue]_vars

\* The part of C23 that holds: the end of a dispatch marks and logs only
\* the message it was sent for, whatever is selected by then.
C23_CompletionTargetsSentMessage ==
  [][DispatchEnds => EndTouchesOnlyItsMessage]_vars

\* ------------------------------------------------------------------------
\* Further properties of the respond relay
\* ------------------------------------------------------------------------

SomeRequiredFalsy == \E f \in RequiredFields : ~Truthy(body[f])

\* C24: when the relay answers 400, postMetaResponse has not been invoked
\* and no outbound call has been made; a request with a missing field or an
\* invalid channel never gets as far as the helper; and the missing-field
\* test comes first: a request that fails both tests gets the
\* required-properties error.
C24_RejectedBeforeHelper ==
  /\ (Responded /\ response.status = 400) =>
       /\ helper = NoHelper
       /\ calls = <<>>
       /\ callsSettled = 0
  /\ (IsRecord /\ (SomeRequiredFalsy \/ ~ChannelIsValid)) =>
       /\ helper = NoHelper
       /\ calls = <<>>
       /\ Responded => response.status = 400
  /\ (IsRecord /\ Responded /\ SomeRequiredFalsy /\ ~ChannelIsValid) =>
       response.error = RequiredError

\* A request without a platform and with a channel that is not valid, which
\* would otherwise be dispatched for real, has been answered with the
\* required-properties error.
C24_Witness ==
  /\ Responded
  /\ IsRecord
  /\ body.platform = Undefined
  /\ body.channel = "story"
  /\ Truthy(body.targetId)
  /\ Truthy(body.message)
  /\ body.dryRun = JsFalse
  /\ Truthy(body.accessToken)
  /\ response.status = 400
  /\ response.error = RequiredError

\* C25: a required field that is present but empty is treated exactly like
\* an absent one: the answer is the 400 of the required-properties test,
\* with ok:false, and no dispatch is attempted.
C25_EmptyFieldIsMissing ==
  (IsRecord /\ SomeRequiredEmpty /\ Responded) =>
    /\ response = JsonResponse(400, FALSE, RequiredError, NoResponse.result)
    /\ helper = NoHelper
    /\ calls = <<>>

\* A request that is valid but for its empty message, and would otherwise
\* be dispatched for real, has been answered.
C25_Witness ==
  /\ Responded
  /\ IsRecord
  /\ body.message = ""
  /\ body.platform = "facebook"
  /\ Truthy(body.targetId)
  /\ ChannelIsValid
  /\ body.dryRun = JsFalse
  /\ Truthy(body.accessToken)
  /\ response.status = 400

\* ------------------------------------------------------------------------
\* Properties of the inbox filters
\* ------------------------------------------------------------------------

FiltersChange ==
  \/ platformFilter' # platformFilter
  \/ statusFilter' # statusFilter
  \/ searchTerm' # searchTerm

\* The filters hide the selected message.
SelectionHidden ==
  /\ Found(messages, selectedMessageId)
  /\ ~Found(filteredMessages, selectedMessageId)

\* C26: selectedMessageId is always null or the id of one of the messages,
\* and some message is selected whenever the filtered list is not empty; a
\* change of the platform filter, the status filter or the search term
\* changes neither the messages nor the selection; and a reply that is sent
\* goes to the selected message, also when the filters hide it.
C26_SelectionAndFilters ==
  /\ [](/\ selectedMessageId = Null \/ Found(messages, selectedMessageId)
        /\ Len(filteredMessages) > 0 => Found(messages, selectedMessageId))
  /\ [][/\ FiltersChange =>
             /\ messages' = messages
             /\ selectedMessageId' = selectedMessageId
        /\ handleSendReply =>
             /\ inflight'.active
             /\ inflight'.message = selectedMessage
             /\ inflight'.payload.targetId = selectedMessageId]_vars

\* A reply is in flight for the selected message while the filters list
\* another message and hide the selected one.
C26_Witness ==
  /\ inflight.active
  /\ inflight.message.id = selectedMessageId
  /\ SelectionHidden
  /\ Len(filteredMessages) > 0
  /\ platformFilter = "instagram"

====
